---- MODULE Spec2Model ----
(***************************************************************************)
(* A model of galvanic-mock-lib (src/src/lib.rs): the state of a mock      *)
(* object (MockState), its given and expected behaviours, the MockControl  *)
(* operations, and the verification run by verify() and by Drop.           *)
(*                                                                         *)
(* usize is scaled down to the range 0 .. USIZE_MAX; `num_matches + 1`     *)
(* keeps the behaviour of the machine type at the top of that range: a     *)
(* build with overflow checks panics there, a build without them wraps.    *)
(***************************************************************************)
EXTENDS Integers, Sequences, FiniteSets, TLC

(* ------------------------------ bounds --------------------------------- *)

\* The largest value of the scaled-down usize (std::usize::MAX in the code).
USIZE_MAX == 2

\* The most behaviour records (given and expected together) a mock holds.
MaxBehaviours == 2

(* ------------------------------ values --------------------------------- *)

Usize == 0 .. USIZE_MAX

\* Option<usize>: None is the empty tuple, Some(x) the one-element tuple.
None == << >>

Some(x) == << x >>

unwrap_or(opt, default) == IF opt = None THEN default ELSE opt[1]

\* The (trait, method) pairs the mocked traits offer.
Keys == { <<"Greeter", "hello">>, <<"Repo", "save">> }

\* Rc<Any>: the bound variables of a behaviour, opaque to the library.
Bound == "bound"

\* HashMap::new()
EmptyMap == [k \in {} |-> << >>]

\* The text of a behaviour's declaration, as the generated code passes it in
\* stmt_repr: the repetition clause of the statement and its arguments.
Repr(ctor, args) == [ctor |-> ctor, args |-> args]

(* --------------------------- GivenBehaviour ---------------------------- *)

GivenBehaviour_with(stmt_id, bound, stmt_repr) ==
    [stmt_id |-> stmt_id, num_matches |-> 0, expected_matches |-> None,
     bound |-> bound, stmt_repr |-> stmt_repr]

GivenBehaviour_with_times(times, stmt_id, bound, stmt_repr) ==
    [stmt_id |-> stmt_id, num_matches |-> 0, expected_matches |-> Some(times),
     bound |-> bound, stmt_repr |-> stmt_repr]

\* A slip: `>` for `>=`.
GivenBehaviour_is_saturated_strict(b) ==
    IF b.expected_matches # None
    THEN b.num_matches > b.expected_matches[1]
    ELSE FALSE

\* A slip: a missing limit read as the limit usize::MAX.
GivenBehaviour_is_saturated_none_as_max(b) ==
    b.num_matches >= unwrap_or(b.expected_matches, USIZE_MAX)

GivenBehaviour_is_saturated(b) ==
    IF b.expected_matches # None
    THEN b.num_matches >= b.expected_matches[1]
    ELSE FALSE

(* --------------------------- ExpectBehaviour --------------------------- *)

\* A slip: the maximum left out, as in with_at_least.
ExpectBehaviour_with_times_no_max(times, stmt_id, bound, stmt_repr) ==
    [stmt_id |-> stmt_id, num_matches |-> 0,
     expected_min_matches |-> Some(times), expected_max_matches |-> None,
     in_order |-> None, bound |-> bound, stmt_repr |-> stmt_repr]

ExpectBehaviour_with_times(times, stmt_id, bound, stmt_repr) ==
    [stmt_id |-> stmt_id, num_matches |-> 0,
     expected_min_matches |-> Some(times), expected_max_matches |-> Some(times),
     in_order |-> None, bound |-> bound, stmt_repr |-> stmt_repr]

ExpectBehaviour_with_at_least(at_least_times, stmt_id, bound, stmt_repr) ==
    [stmt_id |-> stmt_id, num_matches |-> 0,
     expected_min_matches |-> Some(at_least_times), expected_max_matches |-> None,
     in_order |-> None, bound |-> bound, stmt_repr |-> stmt_repr]

\* A slip: the minimum set as well, as in with_times.
ExpectBehaviour_with_at_most_and_min(at_most_times, stmt_id, bound, stmt_repr) ==
    [stmt_id |-> stmt_id, num_matches |-> 0,
     expected_min_matches |-> Some(at_most_times),
     expected_max_matches |-> Some(at_most_times),
     in_order |-> None, bound |-> bound, stmt_repr |-> stmt_repr]

ExpectBehaviour_with_at_most(at_most_times, stmt_id, bound, stmt_repr) ==
    [stmt_id |-> stmt_id, num_matches |-> 0,
     expected_min_matches |-> None, expected_max_matches |-> Some(at_most_times),
     in_order |-> None, bound |-> bound, stmt_repr |-> stmt_repr]

\* A slip: the two bounds put in order by the constructor.
ExpectBehaviour_with_between_ordered(at_least_times, at_most_times, stmt_id, bound, stmt_repr) ==
    [stmt_id |-> stmt_id, num_matches |-> 0,
     expected_min_matches |->
        Some(IF at_least_times <= at_most_times THEN at_least_times ELSE at_most_times),
     expected_max_matches |->
        Some(IF at_least_times <= at_most_times THEN at_most_times ELSE at_least_times),
     in_order |-> None, bound |-> bound, stmt_repr |-> stmt_repr]

ExpectBehaviour_with_between(at_least_times, at_most_times, stmt_id, bound, stmt_repr) ==
    [stmt_id |-> stmt_id, num_matches |-> 0,
     expected_min_matches |-> Some(at_least_times),
     expected_max_matches |-> Some(at_most_times),
     in_order |-> None, bound |-> bound, stmt_repr |-> stmt_repr]

\* A slip: the upper endpoint excluded.
ExpectBehaviour_is_saturated_open_above(b) ==
    /\ unwrap_or(b.expected_min_matches, 0) <= b.num_matches
    /\ b.num_matches < unwrap_or(b.expected_max_matches, USIZE_MAX)

ExpectBehaviour_is_saturated(b) ==
    /\ unwrap_or(b.expected_min_matches, 0) <= b.num_matches
    /\ b.num_matches <= unwrap_or(b.expected_max_matches, USIZE_MAX)

\* describe() of either kind of behaviour
describe(b) == b.stmt_repr

(* -------------------- matched(): num_matches + 1 ----------------------- *)

\* The outcomes of `self.num_matches.get() + 1` followed by set(): the sum
\* when it fits; at usize::MAX the wrapped value (no overflow checks) or a
\* panic that leaves the counter as it was (overflow checks).
MatchedOutcomes(b) ==
    IF b.num_matches < USIZE_MAX
    THEN { [panic |-> FALSE, b |-> [b EXCEPT !.num_matches = b.num_matches + 1]] }
    ELSE { [panic |-> FALSE, b |-> [b EXCEPT !.num_matches = 0]],
           [panic |-> TRUE, b |-> b] }

(* ------------------------------ MockState ------------------------------ *)

VARIABLES
    given_behaviours,   \* HashMap<(trait, method), Vec<GivenBehaviour>>
    expect_behaviours,  \* HashMap<(trait, method), Vec<ExpectBehaviour>>
    verify_on_drop,     \* bool
    life,               \* "live" | "dropped" | "aborted"
    panicking,          \* std::thread::panicking()
    outcome,            \* what the last call returned or raised
    stderr              \* the lines the last call wrote with eprintln!

vars == << given_behaviours, expect_behaviours, verify_on_drop, life,
           panicking, outcome, stderr >>

\* The number of records a map holds.
RECURSIVE CountIn(_, _)
CountIn(map, keys) ==
    IF keys = {} THEN 0
    ELSE LET k == CHOOSE x \in keys : TRUE
         IN Len(map[k]) + CountIn(map, keys \ {k})

Size(map) == CountIn(map, DOMAIN map)

\* A slip: the behaviour put in front of the others.
Push_front(map, key, behaviour) ==
    [k \in DOMAIN map \cup {key} |->
        IF k = key
        THEN (IF key \in DOMAIN map THEN << behaviour >> \o map[key]
                                    ELSE << behaviour >>)
        ELSE map[k]]

\* entry(key).or_insert_with(Vec::new).push(behaviour)
Push(map, key, behaviour) ==
    [k \in DOMAIN map \cup {key} |->
        IF k = key
        THEN (IF key \in DOMAIN map THEN Append(map[key], behaviour)
                                    ELSE << behaviour >>)
        ELSE map[k]]

\* The statement id the generated code gives the next statement of a method.
NextStmtId(map, key) == IF key \in DOMAIN map THEN Len(map[key]) + 1 ELSE 1

\* The orders in which values() may visit the buckets of a map.
RECURSIVE Orders(_)
Orders(keys) ==
    IF keys = {} THEN { << >> }
    ELSE UNION { { << k >> \o rest : rest \in Orders(keys \ {k}) } : k \in keys }

\* The line are_expected_behaviours_satisfied() formats for one behaviour.
Message(b) == [num_matches |-> b.num_matches, description |-> describe(b)]

\* The messages of the unsatisfied behaviours of one bucket, in order.
RECURSIVE BucketMessages(_)
BucketMessages(bucket) ==
    IF bucket = << >> THEN << >>
    ELSE (IF ~ExpectBehaviour_is_saturated(Head(bucket))
          THEN << Message(Head(bucket)) >> ELSE << >>)
         \o BucketMessages(Tail(bucket))

\* A slip: only the first bucket visited.
UnsatisfiedMessages_first_bucket(map, order) ==
    IF order = << >> THEN << >> ELSE BucketMessages(map[Head(order)])

\* unsatisfied_messages after the loop over values().flat_map(|vs| vs)
RECURSIVE UnsatisfiedMessages(_, _)
UnsatisfiedMessages(map, order) ==
    IF order = << >> THEN << >>
    ELSE BucketMessages(map[Head(order)]) \o UnsatisfiedMessages(map, Tail(order))

\* The value are_expected_behaviours_satisfied() returns.
are_expected_behaviours_satisfied(messages) == messages = << >>

\* A slip: the result of the check not negated.
verify_not_negated(is_panicking, messages) ==
    ~is_panicking /\ are_expected_behaviours_satisfied(messages)

\* A slip: no test of std::thread::panicking().
verify_while_panicking(is_panicking, messages) ==
    ~are_expected_behaviours_satisfied(messages)

\* Whether verify() reaches its panic!.
verify(is_panicking, messages) ==
    ~is_panicking /\ ~are_expected_behaviours_satisfied(messages)

\* The lines verify() writes: none when the check is skipped.
verify_output(is_panicking, messages) ==
    IF is_panicking THEN << >> ELSE messages

\* A slip: the check run on the fields after their release.
drop_checked_after_release(map) == EmptyMap

\* The map Drop::drop() hands to verify(): the fields are released after it.
drop_checked(map) == map

Live == life = "live"

Init ==
    /\ given_behaviours = EmptyMap
    /\ expect_behaviours = EmptyMap
    /\ verify_on_drop = TRUE
    /\ life = "live"
    /\ panicking = FALSE
    /\ outcome = "new"
    /\ stderr = << >>

\* MockState::new() for the next mock, once the last one is gone.
New ==
    /\ life = "dropped"
    /\ given_behaviours' = EmptyMap
    /\ expect_behaviours' = EmptyMap
    /\ verify_on_drop' = TRUE
    /\ life' = "live"
    /\ outcome' = "new"
    /\ stderr' = << >>
    /\ UNCHANGED panicking

ShouldVerifyOnDrop ==
    /\ Live
    /\ \E flag \in BOOLEAN : verify_on_drop' = flag
    /\ outcome' = "none"
    /\ stderr' = << >>
    /\ UNCHANGED << given_behaviours, expect_behaviours, life, panicking >>

Room == Size(given_behaviours) + Size(expect_behaviours) < MaxBehaviours

GivenChoices(stmt_id) ==
    { GivenBehaviour_with(stmt_id, Bound, Repr("always", << >>)) }
    \cup { GivenBehaviour_with_times(t, stmt_id, Bound, Repr("times", << t >>)) :
             t \in Usize }

AddGivenBehaviour ==
    /\ Live
    /\ Room
    /\ \E key \in Keys :
         \E b \in GivenChoices(NextStmtId(given_behaviours, key)) :
            given_behaviours' = Push(given_behaviours, key, b)
    /\ outcome' = "none"
    /\ stderr' = << >>
    /\ UNCHANGED << expect_behaviours, verify_on_drop, life, panicking >>

\* A slip: the clear() applied to a copy, the map itself left as it was.
clear_a_copy(map) == map

\* HashMap::clear()
clear(map) == EmptyMap

ResetGivenBehaviours ==
    /\ Live
    /\ given_behaviours' = clear(given_behaviours)
    /\ outcome' = "reset_given"
    /\ stderr' = << >>
    /\ UNCHANGED << expect_behaviours, verify_on_drop, life, panicking >>

ExpectChoices(stmt_id) ==
    { ExpectBehaviour_with_times(t, stmt_id, Bound, Repr("times", << t >>)) :
        t \in Usize }
    \cup { ExpectBehaviour_with_at_least(t, stmt_id, Bound, Repr("at_least", << t >>)) :
             t \in Usize }
    \cup { ExpectBehaviour_with_at_most(t, stmt_id, Bound, Repr("at_most", << t >>)) :
             t \in Usize }
    \cup { ExpectBehaviour_with_between(lo, hi, stmt_id, Bound,
                                        Repr("between", << lo, hi >>)) :
             lo \in Usize, hi \in Usize }

AddExpectBehaviour ==
    /\ Live
    /\ Room
    /\ \E key \in Keys :
         \E b \in ExpectChoices(NextStmtId(expect_behaviours, key)) :
            expect_behaviours' = Push(expect_behaviours, key, b)
    /\ outcome' = "none"
    /\ stderr' = << >>
    /\ UNCHANGED << given_behaviours, verify_on_drop, life, panicking >>

\* A slip: the other map cleared.
ResetExpectedBehaviours_clears_given ==
    /\ Live
    /\ given_behaviours' = clear(given_behaviours)
    /\ outcome' = "reset_expected"
    /\ stderr' = << >>
    /\ UNCHANGED << expect_behaviours, verify_on_drop, life, panicking >>

ResetExpectedBehaviours ==
    /\ Live
    /\ expect_behaviours' = clear(expect_behaviours)
    /\ outcome' = "reset_expected"
    /\ stderr' = << >>
    /\ UNCHANGED << given_behaviours, verify_on_drop, life, panicking >>

\* What a panic raised by matched() does to the thread: it starts unwinding,
\* or, raised while the thread already unwinds, aborts the process.
AfterMatched(res) ==
    /\ outcome' = IF res.panic THEN "matched_panic" ELSE "none"
    /\ life' = IF res.panic /\ panicking THEN "aborted" ELSE life
    /\ panicking' = (panicking \/ res.panic)
    /\ stderr' = << >>

GivenMatched ==
    /\ Live
    /\ \E key \in DOMAIN given_behaviours :
         \E i \in 1 .. Len(given_behaviours[key]) :
            \E res \in MatchedOutcomes(given_behaviours[key][i]) :
               /\ given_behaviours' =
                     [given_behaviours EXCEPT ![key][i] = res.b]
               /\ AfterMatched(res)
    /\ UNCHANGED << expect_behaviours, verify_on_drop >>

ExpectMatched ==
    /\ Live
    /\ \E key \in DOMAIN expect_behaviours :
         \E i \in 1 .. Len(expect_behaviours[key]) :
            \E res \in MatchedOutcomes(expect_behaviours[key][i]) :
               /\ expect_behaviours' =
                     [expect_behaviours EXCEPT ![key][i] = res.b]
               /\ AfterMatched(res)
    /\ UNCHANGED << given_behaviours, verify_on_drop >>

AreExpectedBehavioursSatisfied ==
    /\ Live
    /\ \E order \in Orders(DOMAIN expect_behaviours) :
         LET messages == UnsatisfiedMessages(expect_behaviours, order)
         IN /\ outcome' = IF are_expected_behaviours_satisfied(messages)
                          THEN "satisfied" ELSE "unsatisfied"
            /\ stderr' = messages
    /\ UNCHANGED << given_behaviours, expect_behaviours, verify_on_drop, life,
                    panicking >>

Verify ==
    /\ Live
    /\ \E order \in Orders(DOMAIN expect_behaviours) :
         LET messages == UnsatisfiedMessages(expect_behaviours, order)
         IN /\ outcome' = IF verify(panicking, messages)
                          THEN "verify_panic" ELSE "verify_return"
            /\ panicking' = (panicking \/ verify(panicking, messages))
            /\ stderr' = verify_output(panicking, messages)
    /\ UNCHANGED << given_behaviours, expect_behaviours, verify_on_drop, life >>

Drop ==
    /\ Live
    /\ \E order \in Orders(DOMAIN drop_checked(expect_behaviours)) :
         LET checked == drop_checked(expect_behaviours)
             messages == UnsatisfiedMessages(checked, order)
             raised == verify_on_drop /\ verify(panicking, messages)
         IN /\ outcome' = IF raised THEN "drop_panic" ELSE "drop_return"
            /\ panicking' = (panicking \/ raised)
            /\ stderr' = IF verify_on_drop
                         THEN verify_output(panicking, messages) ELSE << >>
    /\ given_behaviours' = EmptyMap
    /\ expect_behaviours' = EmptyMap
    /\ life' = "dropped"
    /\ UNCHANGED verify_on_drop

\* A failure elsewhere in the test: the thread starts to unwind.
Panic ==
    /\ life # "aborted"
    /\ ~panicking
    /\ panicking' = TRUE
    /\ outcome' = "none"
    /\ stderr' = << >>
    /\ UNCHANGED << given_behaviours, expect_behaviours, verify_on_drop, life >>

\* The unwinding ends (the panic is caught, or the next test starts).
Recover ==
    /\ life # "aborted"
    /\ panicking
    /\ panicking' = FALSE
    /\ outcome' = "none"
    /\ stderr' = << >>
    /\ UNCHANGED << given_behaviours, expect_behaviours, verify_on_drop, life >>

Next ==
    \/ New
    \/ ShouldVerifyOnDrop
    \/ AddGivenBehaviour
    \/ ResetGivenBehaviours
    \/ AddExpectBehaviour
    \/ ResetExpectedBehaviours
    \/ GivenMatched
    \/ ExpectMatched
    \/ AreExpectedBehavioursSatisfied
    \/ Verify
    \/ Drop
    \/ Panic
    \/ Recover

Spec == Init /\ [][Next]_vars

\* The same mock holding at most one behaviour of each kind: the life of a
\* single GivenBehaviour and a single ExpectBehaviour.
OneOfEachKind == Size(given_behaviours) <= 1 /\ Size(expect_behaviours) <= 1

NextBehaviour ==
    \/ New
    \/ ShouldVerifyOnDrop
    \/ AddGivenBehaviour /\ OneOfEachKind'
    \/ ResetGivenBehaviours
    \/ AddExpectBehaviour /\ OneOfEachKind'
    \/ ResetExpectedBehaviours
    \/ GivenMatched
    \/ ExpectMatched
    \/ AreExpectedBehavioursSatisfied
    \/ Verify
    \/ Drop
    \/ Panic
    \/ Recover

SpecBehaviour == Init /\ [][NextBehaviour]_vars

(* ------------------------------ properties ----------------------------- *)

\* The records a map holds.
Records(map) ==
    UNION { { map[k][i] : i \in 1 .. Len(map[k]) } : k \in DOMAIN map }

SomeUnsatisfied(map) == \E b \in Records(map) : ~ExpectBehaviour_is_saturated(b)

\* The step just taken was a call of verify(), of
\* are_expected_behaviours_satisfied(), or the drop of the mock.
VerifyStep == outcome' \in {"verify_panic", "verify_return"}

DropStep == outcome' \in {"drop_panic", "drop_return"}

\* C1: outside unwinding, verify() panics if and only if some registered
\* expected behaviour is unsatisfied at the time of the call, whatever the
\* value of verify_on_drop.
C1_VerifyPanicsIffUnsatisfied ==
    [][ (VerifyStep /\ ~panicking) =>
            (outcome' = "verify_panic" <=> SomeUnsatisfied(expect_behaviours)) ]_vars

\* verify() has panicked on a mock whose verify_on_drop is off.
C1_Witness ==
    /\ outcome = "verify_panic"
    /\ ~verify_on_drop
    /\ SomeUnsatisfied(expect_behaviours)

\* C2: while the thread unwinds, verify() returns without panicking, writes
\* no diagnostics, and changes nothing.
C2_VerifySkippedWhileUnwinding ==
    [][ (VerifyStep /\ panicking) =>
            /\ outcome' = "verify_return"
            /\ stderr' = << >>
            /\ UNCHANGED << given_behaviours, expect_behaviours, verify_on_drop,
                            life, panicking >> ]_vars

\* verify() has returned during unwinding on a mock with unsatisfied
\* expectations.
C2_Witness ==
    /\ outcome = "verify_return"
    /\ panicking
    /\ SomeUnsatisfied(expect_behaviours)

\* C3: verify_on_drop is true on a new mock, and the drop of a mock panics if
\* and only if verify_on_drop is true, the thread is not unwinding and some
\* expected behaviour, among all those held when the drop starts, is
\* unsatisfied.
C3_DropPanicsIffEnabledAndUnsatisfied ==
    /\ verify_on_drop = TRUE
    /\ [][ /\ outcome' = "new" => verify_on_drop'
           /\ DropStep =>
                (outcome' = "drop_panic" <=>
                    /\ verify_on_drop
                    /\ ~panicking
                    /\ SomeUnsatisfied(expect_behaviours)) ]_vars

\* The drop of a mock has panicked.
C3_Witness ==
    /\ life = "dropped"
    /\ outcome = "drop_panic"
    /\ verify_on_drop

\* C4: are_expected_behaviours_satisfied() returns true if and only if every
\* expected behaviour of every bucket is satisfied; it returns true on a
\* mock without expected behaviours.
C4_SatisfiedIffAllSaturated ==
    outcome \in {"satisfied", "unsatisfied"} =>
        (outcome = "satisfied" <=>
            \A k \in DOMAIN expect_behaviours :
               \A i \in 1 .. Len(expect_behaviours[k]) :
                  ExpectBehaviour_is_saturated(expect_behaviours[k][i]))

\* The check has returned false on a mock with a satisfied behaviour in one
\* bucket and an unsatisfied one, registered later, in another.
C4_Witness ==
    /\ outcome = "unsatisfied"
    /\ \E k1 \in DOMAIN expect_behaviours, k2 \in DOMAIN expect_behaviours :
          /\ k1 # k2
          /\ ExpectBehaviour_is_saturated(expect_behaviours[k1][1])
          /\ ~ExpectBehaviour_is_saturated(expect_behaviours[k2][1])

\* The given behaviours declared with a limit (`times n`), those declared
\* without one, and the expected behaviours declared with each clause.
GivenDeclared(ctor) ==
    { b \in Records(given_behaviours) : describe(b).ctor = ctor }

ExpectDeclared(ctor) ==
    { b \in Records(expect_behaviours) : describe(b).ctor = ctor }

C6_UnlimitedGivenNeverSaturated ==
    \A b \in GivenDeclared("always") : ~GivenBehaviour_is_saturated(b)

\* A given behaviour without a limit has been matched as often as the
\* counter can tell.
C6_Witness ==
    \E b \in GivenDeclared("always") : b.num_matches = USIZE_MAX

\* C7: an expected behaviour created with `times n` is satisfied if and only
\* if num_matches = n.
C7_ExactSatisfiedIffEqual ==
    \A b \in ExpectDeclared("times") :
       ExpectBehaviour_is_saturated(b) <=> b.num_matches = describe(b).args[1]

\* An expected behaviour declared `times n` has been matched more than n
\* times.
C7_Witness ==
    \E b \in ExpectDeclared("times") :
       /\ describe(b).args[1] >= 1
       /\ b.num_matches > describe(b).args[1]
       /\ ~ExpectBehaviour_is_saturated(b)

\* An expected behaviour created with `at_least n` is satisfied if and only
\* if num_matches >= n.
AtLeastSatisfiedIffReached ==
    \A b \in ExpectDeclared("at_least") :
       ExpectBehaviour_is_saturated(b) <=> b.num_matches >= describe(b).args[1]

\* A call of matched() on a satisfied `at_least n` behaviour leaves it
\* satisfied.
AtLeastStaysSatisfied ==
    \A k \in DOMAIN expect_behaviours \cap DOMAIN expect_behaviours' :
       \A i \in 1 .. Len(expect_behaviours[k]) :
          (/\ i <= Len(expect_behaviours'[k])
           /\ describe(expect_behaviours[k][i]).ctor = "at_least"
           /\ describe(expect_behaviours'[k][i]) = describe(expect_behaviours[k][i])
           /\ expect_behaviours'[k][i].num_matches # expect_behaviours[k][i].num_matches
           /\ ExpectBehaviour_is_saturated(expect_behaviours[k][i]))
          => ExpectBehaviour_is_saturated(expect_behaviours'[k][i])

\* C8: an expected behaviour created with `at_least n` is satisfied if and
\* only if num_matches >= n, and once satisfied it stays satisfied under
\* further calls of matched().
C8_AtLeastSatisfiedAndStays ==
    [](AtLeastSatisfiedIffReached) /\ [][AtLeastStaysSatisfied]_vars

\* C9: an expected behaviour created with `between lo, hi`, lo <= hi, is
\* satisfied if and only if lo <= num_matches <= hi.
C9_BetweenSatisfiedIffWithin ==
    \A b \in ExpectDeclared("between") :
       LET lo == describe(b).args[1]
           hi == describe(b).args[2]
       IN lo <= hi =>
            (ExpectBehaviour_is_saturated(b) <=>
                (lo <= b.num_matches /\ b.num_matches <= hi))

\* An expected behaviour declared `between lo, hi` with lo < hi has been
\* matched exactly hi times.
C9_Witness ==
    \E b \in ExpectDeclared("between") :
       /\ describe(b).args[1] < describe(b).args[2]
       /\ b.num_matches = describe(b).args[2]
       /\ ExpectBehaviour_is_saturated(b)

\* The declarations whose minimum is 0 or absent.
MinimumZeroOrAbsent(b) ==
    \/ describe(b).ctor = "at_most"
    \/ describe(b).ctor \in {"times", "at_least", "between"} /\ describe(b).args[1] = 0

\* C10: an expected behaviour created with `at_most n` is satisfied if and
\* only if num_matches <= n, and a behaviour whose minimum is 0 or absent is
\* satisfied while it has no matches.
C10_AtMostSatisfiedIffNotAbove ==
    /\ \A b \in ExpectDeclared("at_most") :
          ExpectBehaviour_is_saturated(b) <=> b.num_matches <= describe(b).args[1]
    /\ \A b \in Records(expect_behaviours) :
          (MinimumZeroOrAbsent(b) /\ b.num_matches = 0)
             => ExpectBehaviour_is_saturated(b)

\* An expected behaviour declared `at_most n` has been matched n + 1 times.
C10_Witness ==
    \E b \in ExpectDeclared("at_most") :
       /\ b.num_matches = describe(b).args[1] + 1
       /\ ~ExpectBehaviour_is_saturated(b)

\* What the generated code finds when it looks a method up in a map.
Lookup(map, key) == IF key \in DOMAIN map THEN map[key] ELSE << >>

\* C11: after reset_given_behaviours() the lookup of every key yields no
\* behaviours, and the next add_given_behaviour starts a bucket that holds
\* the new behaviour alone, with no matches.
C11_ResetGivenEmptiesEveryBucket ==
    [][ /\ outcome' = "reset_given" =>
              \A key \in Keys : Lookup(given_behaviours', key) = << >>
        /\ (outcome = "reset_given" /\ given_behaviours' # given_behaviours) =>
              \E key \in Keys :
                 /\ DOMAIN given_behaviours' = {key}
                 /\ Len(given_behaviours'[key]) = 1
                 /\ given_behaviours'[key][1].num_matches = 0 ]_vars

\* reset_given_behaviours() has been called on a mock that holds an
\* expected behaviour, and no given behaviour is left.
C11_Witness ==
    /\ outcome = "reset_given"
    /\ Size(given_behaviours) = 0
    /\ Size(expect_behaviours) = 1

\* What tells one registered behaviour from another: its statement id and
\* its declaration.
Identity(b) == << b.stmt_id, describe(b) >>

\* The statement ids of every bucket count up in the order of registration.
IdsInOrder(map) ==
    \A key \in DOMAIN map : \A i \in 1 .. Len(map[key]) : map[key][i].stmt_id = i

\* Every bucket of old is in new with the same behaviours at the same places,
\* followed by at most one new behaviour in the whole map.
Kept(old, new) ==
    /\ \A key \in DOMAIN old :
          /\ key \in DOMAIN new
          /\ Len(old[key]) <= Len(new[key])
          /\ \A i \in 1 .. Len(old[key]) :
                Identity(new[key][i]) = Identity(old[key][i])
    /\ Size(new) <= Size(old) + 1

\* C12: the behaviours of a bucket stay in the order of their registration:
\* short of a reset or the drop of the mock, every step leaves the behaviours
\* of every bucket where they were, and a registration adds the new one at
\* the end of its bucket; so for the given as for the expected behaviours.
C12_RegistrationOrderKept ==
    /\ [](IdsInOrder(given_behaviours) /\ IdsInOrder(expect_behaviours))
    /\ [][ /\ outcome' \notin {"reset_given", "drop_panic", "drop_return"} =>
                Kept(given_behaviours, given_behaviours')
           /\ outcome' \notin {"reset_expected", "drop_panic", "drop_return"} =>
                Kept(expect_behaviours, expect_behaviours') ]_vars

\* Two expected behaviours with different declarations have been registered
\* for the same method.
C12_Witness ==
    \E key \in DOMAIN expect_behaviours :
       /\ Len(expect_behaviours[key]) = 2
       /\ expect_behaviours[key][1].stmt_id = 1
       /\ expect_behaviours[key][2].stmt_id = 2
       /\ describe(expect_behaviours[key][1]) # describe(expect_behaviours[key][2])

SatisfiedStep == outcome' \in {"satisfied", "unsatisfied"}

\* are_expected_behaviours_satisfied() and verify() change no field of the
\* mock.
ChecksChangeNothing ==
    (SatisfiedStep \/ VerifyStep) =>
        UNCHANGED << given_behaviours, expect_behaviours, verify_on_drop, life >>

UnsatisfiedPlaces(map) ==
    { << key, i >> \in Keys \X (1 .. MaxBehaviours + 1) :
         /\ key \in DOMAIN map
         /\ i <= Len(map[key])
         /\ ~ExpectBehaviour_is_saturated(map[key][i]) }

\* After are_expected_behaviours_satisfied(), stderr holds one line for each
\* unsatisfied behaviour, with its number of matches and its description,
\* and no other line.
OneMessagePerUnsatisfied ==
    outcome \in {"satisfied", "unsatisfied"} =>
        /\ Len(stderr) = Cardinality(UnsatisfiedPlaces(expect_behaviours))
        /\ \A p \in UnsatisfiedPlaces(expect_behaviours) :
              LET b == expect_behaviours[p[1]][p[2]]
                  same == { q \in UnsatisfiedPlaces(expect_behaviours) :
                               LET c == expect_behaviours[q[1]][q[2]]
                               IN /\ c.num_matches = b.num_matches
                                  /\ describe(c) = describe(b) }
                  lines == { j \in 1 .. Len(stderr) :
                               /\ stderr[j].num_matches = b.num_matches
                               /\ stderr[j].description = describe(b) }
              IN Cardinality(lines) = Cardinality(same)

\* The line names the method: it has the (trait, method) pair of a bucket
\* that holds an unsatisfied behaviour.
NamesItsMethod(line) ==
    /\ "method" \in DOMAIN line
    /\ \E p \in UnsatisfiedPlaces(expect_behaviours) : line.method = p[1]

\* C14: are_expected_behaviours_satisfied() writes exactly one line for each
\* unsatisfied expected behaviour and none for a satisfied one, and every
\* line has the name of the method, the number of matches and the
\* description of the declaration.
C14_OneNamedMessagePerUnsatisfied ==
    /\ OneMessagePerUnsatisfied
    /\ outcome \in {"satisfied", "unsatisfied"} =>
          \A j \in 1 .. Len(stderr) : NamesItsMethod(stderr[j])

\* The places of a map that hold a behaviour before and after the step, the
\* same one, with another number of matches: matched() was called on it.
MatchedPlaces(old, new) ==
    { << key, i >> \in Keys \X (1 .. MaxBehaviours + 1) :
         /\ key \in DOMAIN old /\ key \in DOMAIN new
         /\ i <= Len(old[key]) /\ i <= Len(new[key])
         /\ Identity(new[key][i]) = Identity(old[key][i])
         /\ new[key][i].num_matches # old[key][i].num_matches }

\* Every call of matched() on a behaviour of the map added one to its
\* num_matches.
CountsOneMore(old, new) ==
    \A p \in MatchedPlaces(old, new) :
       new[p[1]][p[2]].num_matches = old[p[1]][p[2]].num_matches + 1

\* C15: matched() never fails and adds exactly one to num_matches, on a given
\* and on an expected behaviour, also when num_matches is the largest value
\* of the counter.
C15_MatchedAddsOne ==
    [][ /\ outcome' # "matched_panic"
        /\ CountsOneMore(given_behaviours, given_behaviours')
        /\ CountsOneMore(expect_behaviours, expect_behaviours') ]_vars

\* Short of the largest value of the counter, matched() returns and adds one.
MatchedAddsOneBelowMax ==
    [][ /\ outcome' = "matched_panic" =>
              \E b \in Records(given_behaviours) \cup Records(expect_behaviours) :
                 b.num_matches = USIZE_MAX
        /\ \A p \in MatchedPlaces(given_behaviours, given_behaviours') :
              given_behaviours[p[1]][p[2]].num_matches < USIZE_MAX =>
                 given_behaviours'[p[1]][p[2]].num_matches
                    = given_behaviours[p[1]][p[2]].num_matches + 1
        /\ \A p \in MatchedPlaces(expect_behaviours, expect_behaviours') :
              expect_behaviours[p[1]][p[2]].num_matches < USIZE_MAX =>
                 expect_behaviours'[p[1]][p[2]].num_matches
                    = expect_behaviours[p[1]][p[2]].num_matches + 1 ]_vars

\* C16: a saturated given behaviour stays saturated under further calls of
\* matched(), and matched() can still be called on it.
C16_SaturatedGivenStaysSaturated ==
    /\ []((Live /\ \E b \in Records(given_behaviours) :
                      GivenBehaviour_is_saturated(b))
             => ENABLED GivenMatched)
    /\ [][ \A p \in MatchedPlaces(given_behaviours, given_behaviours') :
              GivenBehaviour_is_saturated(given_behaviours[p[1]][p[2]])
                 => GivenBehaviour_is_saturated(given_behaviours'[p[1]][p[2]]) ]_vars

\* Short of the largest value of the counter, a saturated given behaviour
\* stays saturated under matched().
SaturatedGivenStaysBelowMax ==
    [][ \A p \in MatchedPlaces(given_behaviours, given_behaviours') :
           (/\ GivenBehaviour_is_saturated(given_behaviours[p[1]][p[2]])
            /\ given_behaviours[p[1]][p[2]].num_matches < USIZE_MAX)
              => GivenBehaviour_is_saturated(given_behaviours'[p[1]][p[2]]) ]_vars

\* C17: right after reset_expected_behaviours() the mock holds no expected
\* behaviour: are_expected_behaviours_satisfied() returns true, verify() and
\* the drop of the mock do not panic, and an add_expect_behaviour leaves the
\* new behaviour, without matches, as the only one the checks see.
C17_NothingExpectedAfterReset ==
    /\ [](outcome = "reset_expected" => Records(expect_behaviours) = {})
    /\ [][ outcome = "reset_expected" =>
              /\ SatisfiedStep => outcome' = "satisfied"
              /\ VerifyStep => outcome' = "verify_return"
              /\ DropStep => outcome' = "drop_return"
              /\ expect_behaviours' # expect_behaviours =>
                    \E b \in Records(expect_behaviours') :
                       /\ Records(expect_behaviours') = {b}
                       /\ Size(expect_behaviours') = 1
                       /\ b.num_matches = 0 ]_vars

\* reset_expected_behaviours() has been called outside unwinding on a mock
\* that verifies on drop and holds a given behaviour.
C17_Witness ==
    /\ outcome = "reset_expected"
    /\ Size(expect_behaviours) = 0
    /\ Size(given_behaviours) = 1
    /\ verify_on_drop
    /\ ~panicking

\* The expected behaviour has more matches than its maximum allows.
Exceeded(b) ==
    b.expected_max_matches # None /\ b.num_matches > b.expected_max_matches[1]

\* C18: matched() still counts on a satisfied expected behaviour, and once
\* num_matches is above the maximum no further call of matched() makes the
\* behaviour satisfied again: every verify() outside unwinding then panics
\* until reset_expected_behaviours() removes the behaviour.
C18_ExceededStaysUnsatisfied ==
    [][ /\ \A p \in MatchedPlaces(expect_behaviours, expect_behaviours') :
              Exceeded(expect_behaviours[p[1]][p[2]])
                 => ~ExpectBehaviour_is_saturated(expect_behaviours'[p[1]][p[2]])
        /\ (/\ VerifyStep
            /\ ~panicking
            /\ \E b \in Records(expect_behaviours) : Exceeded(b))
              => outcome' = "verify_panic" ]_vars

\* Short of the largest value of the counter, an expected behaviour above
\* its maximum stays unsatisfied under matched(), and verify() outside
\* unwinding panics while the mock holds one.
ExceededStaysBelowMax ==
    [][ /\ \A p \in MatchedPlaces(expect_behaviours, expect_behaviours') :
              (/\ Exceeded(expect_behaviours[p[1]][p[2]])
               /\ expect_behaviours[p[1]][p[2]].num_matches < USIZE_MAX)
                 => ~ExpectBehaviour_is_saturated(expect_behaviours'[p[1]][p[2]])
        /\ (/\ VerifyStep
            /\ ~panicking
            /\ \E b \in Records(expect_behaviours) : Exceeded(b))
              => outcome' = "verify_panic" ]_vars

\* What the checks report for a map of expected behaviours: the value of
\* are_expected_behaviours_satisfied() and whether verify() panics, outside
\* and inside unwinding, for every order of the buckets.
Verdicts(map) ==
    { << are_expected_behaviours_satisfied(UnsatisfiedMessages(map, order)),
         verify(FALSE, UnsatisfiedMessages(map, order)),
         verify(TRUE, UnsatisfiedMessages(map, order)) >> :
        order \in Orders(DOMAIN map) }

\* Which given behaviours of the map are saturated.
Exhaustion(map) ==
    [key \in DOMAIN map |->
       [i \in 1 .. Len(map[key]) |-> GivenBehaviour_is_saturated(map[key][i])]]

\* The places of the two maps whose behaviour the step changed.
ChangedPlaces ==
    { << "given", key, i >> : << key, i >> \in
         { p \in Keys \X (1 .. MaxBehaviours) :
              /\ p[1] \in DOMAIN given_behaviours
              /\ p[2] <= Len(given_behaviours[p[1]])
              /\ given_behaviours'[p[1]][p[2]] # given_behaviours[p[1]][p[2]] } }
    \cup
    { << "expect", key, i >> : << key, i >> \in
         { p \in Keys \X (1 .. MaxBehaviours) :
              /\ p[1] \in DOMAIN expect_behaviours
              /\ p[2] <= Len(expect_behaviours[p[1]])
              /\ expect_behaviours'[p[1]][p[2]] # expect_behaviours[p[1]][p[2]] } }

BetweenCrossed(map) ==
    { b \in Records(map) :
         /\ describe(b).ctor = "between"
         /\ describe(b).args[1] > describe(b).args[2] }

\* C20: with_between accepts lo > hi; such a behaviour is unsatisfied at every
\* num_matches, and while the mock holds one every verify() outside unwinding
\* panics, and so does the drop of a mock that verifies on drop.
C20_CrossedBetweenNeverSatisfied ==
    /\ [](\A b \in BetweenCrossed(expect_behaviours) :
             ~ExpectBehaviour_is_saturated(b))
    /\ [][ (BetweenCrossed(expect_behaviours) # {} /\ ~panicking) =>
              /\ VerifyStep => outcome' = "verify_panic"
              /\ SatisfiedStep => outcome' = "unsatisfied"
              /\ (DropStep /\ verify_on_drop) => outcome' = "drop_panic" ]_vars

\* verify() has panicked on a mock whose only expected behaviour is a
\* between(lo, hi) with lo > hi that was matched lo times.
C20_Witness ==
    /\ outcome = "verify_panic"
    /\ Size(expect_behaviours) = 1
    /\ \E b \in BetweenCrossed(expect_behaviours) :
          b.num_matches = describe(b).args[1]

====
